---- MODULE Spec2Model ----
(***************************************************************************)
(* SquadSync: the synchronisation core of src/App.tsx (the polling        *)
(* variant, lines 259-555), with the seed schedule of constants.ts         *)
(* (src/unnamed/part_000) and the types of src/types.ts.                   *)
(*                                                                         *)
(* One browser client is modelled.  Its React state is the model's state;  *)
(* every await of fetchData / toggleStatus is a step boundary, so that     *)
(* overlapping polls, late responses and pending writes interleave as they *)
(* do on the event loop.  The backend (not in the repository's sources) is *)
(* a collection `db` with read-all / write-one / initialize, modelled from *)
(* the interface the specification describes.                              *)
(***************************************************************************)
EXTENDS Integers, Sequences, FiniteSets, TLC

VARIABLES
    weekends,       \* useState<WeekendAvailability[]>            App.tsx:266
    isLoading,      \* useState(true)                             App.tsx:269
    isOfflineMode,  \* useState(false)                            App.tsx:270
    lastSynced,     \* useState<Date|null>: FALSE = null          App.tsx:271
    syncError,      \* useState<string|null>: NoError = null      App.tsx:272
    isConnecting,   \* useState(true)                             App.tsx:273
    insight,        \* useState<SquadInsight|null>: NoInsight = null App.tsx:267
    isSyncing,      \* useState(false)                            App.tsx:268
    localStorage,   \* the item 'squad_sync_offline'              App.tsx:285,355
    db,             \* the backend's collection (sequence of JSON slots)
    fetches,        \* fetchData invocations suspended at an await
    writes,         \* POST /api/weekends requests not yet settled
    nEvents,        \* timer ticks, clicks and writes of other clients so far
    ev,             \* the last step taken, with the state it started from
    hist            \* the run of identical toggles since the last merge

vars == <<weekends, isLoading, isOfflineMode, lastSynced, syncError, isConnecting,
          insight, isSyncing, localStorage, db, fetches, writes, nEvents, ev, hist>>

----------------------------------------------------------------------------
(* Bounds of the model.                                                    *)

\* Length of the seed schedule (the source generates 20 Saturdays).
NumWeekends == 2
\* Events from outside per session: ticks of the 5-second polling interval,
\* clicks on a status badge, and writes of other clients reaching the backend.
MaxEvents == 2

\* The reads a timer that never stops can have pending at once.
MaxInFlight == 2

----------------------------------------------------------------------------
(* constants.ts / types.ts                                                 *)

FRIENDS == {"Grant", "Gary", "Stu", "Ian"}
FREE == "FREE"
BUSY == "BUSY"

\* d.setDate(d.getDate() + (i * 7))
DaysPerStep == 7

\* A Date is the number of days after 2026-05-09 00:00; NaN is Invalid Date.
InvalidDate == 0 - 1

\* The ISO texts of the Saturdays the model can reach.
IsoTable ==
    <<"2026-05-09T00:00:00.000Z", "2026-05-16T00:00:00.000Z",
      "2026-05-23T00:00:00.000Z", "2026-05-30T00:00:00.000Z">>

\* Date.prototype.toISOString
ToISOString(d) == IsoTable[(d \div DaysPerStep) + 1]

\* new Date(text): the date of an ISO text, Invalid Date for any other text
NewDate(text) ==
    IF \E i \in DOMAIN IsoTable : IsoTable[i] = text
    THEN DaysPerStep * ((CHOOSE i \in DOMAIN IsoTable : IsoTable[i] = text) - 1)
    ELSE InvalidDate

\* JSON.stringify of a Date: its ISO text, null for Invalid Date
DateToJSON(d) == IF d = InvalidDate THEN "null" ELSE ToISOString(d)

AllBusy == [f \in FRIENDS |-> BUSY]
AllFree == [f \in FRIENDS |-> FREE]

\* INITIAL_WEEKENDS without the d.setDate(...) step: every slot on the
\* start date
INITIAL_WEEKENDS_sameDay ==
    [i \in 1..NumWeekends |->
        [id     |-> ToISOString(0),
         date   |-> 0,
         status |-> AllBusy]]

\* INITIAL_WEEKENDS: NumWeekends Saturdays from 2026-05-09, everyone BUSY
INITIAL_WEEKENDS ==
    [i \in 1..NumWeekends |->
        [id     |-> ToISOString((i - 1) * DaysPerStep),
         date   |-> (i - 1) * DaysPerStep,
         status |-> AllBusy]]

----------------------------------------------------------------------------
(* JSON conversions                                                        *)

\* JSON.stringify of one slot: the Date becomes its ISO text
StringifySlot(w) == [id |-> w.id, date |-> DateToJSON(w.date), status |-> w.status]

\* JSON.stringify of a schedule
Stringify(ws) == [i \in DOMAIN ws |-> StringifySlot(ws[i])]

\* data.map(w => ({...w, date: new Date(w.id || w.date || Date.now())}))
\* Every id the model produces is a non-empty text, so w.id is truthy.
HydrateRemote(data) ==
    [i \in DOMAIN data |->
        [id |-> data[i].id, date |-> NewDate(data[i].id), status |-> data[i].status]]

\* parsed.map(w => ({...w, date: new Date(w.id)}))
HydrateLocal(parsed) ==
    [i \in DOMAIN parsed |->
        [id |-> parsed[i].id, date |-> NewDate(parsed[i].id), status |-> parsed[i].status]]

----------------------------------------------------------------------------
(* Derived state                                                           *)

NoError == "null"

\* The status indicator: Searching... / Offline Mode / Live Syncing
Mode ==
    IF isConnecting THEN "CONNECTING"
    ELSE IF isOfflineMode THEN "OFFLINE" ELSE "ONLINE"

\* Object.values(w.status)
ObjectValues(status) == {status[k] : k \in DOMAIN status}

\* the predicate of the shortlist filter
EveryFree(w) == \A s \in ObjectValues(w.status) : s = FREE

\* weekends.filter(...): the subsequence, in the order of the schedule
ShortlistOf(ws) == SelectSeq(ws, EveryFree)

shortlist == ShortlistOf(weekends)

----------------------------------------------------------------------------
(* The backend, as the client sees it.  Its code is not in the repository: *)
(* read-all returns the collection, write-one replaces the slot of the     *)
(* same id (or adds it), initialize stores the seed.                       *)

ServerReadAll(store) == store

ServerWriteOne(store, slot) ==
    IF \E i \in DOMAIN store : store[i].id = slot.id
    THEN [i \in DOMAIN store |-> IF store[i].id = slot.id THEN slot ELSE store[i]]
    ELSE Append(store, slot)

ServerInitialize(store, seed) == seed

\* An HTTP exchange as fetch() settles it: status 0 stands for a rejected
\* promise (network failure); the body counts for status 200 only.
NoBody == [parses |-> FALSE, isArray |-> FALSE, data |-> <<>>]
Response(status, body) == [status |-> status, body |-> body]
Rejected == Response(0, NoBody)
ArrayBody(data) == [parses |-> TRUE, isArray |-> TRUE, data |-> data]
\* a body that is no JSON text at all
GarbledBody == NoBody
\* a JSON text that is no array (null, an object)
NonArrayBody == [parses |-> TRUE, isArray |-> FALSE, data |-> <<>>]

\* Arrays whose elements are not well-formed slots: a status mapping lacking
\* a participant, one holding a value that is neither FREE nor BUSY, and one
\* with a key that is no participant.
MalformedArrays ==
    { << [id |-> IsoTable[1], date |-> IsoTable[1],
          status |-> [f \in FRIENDS \ {"Ian"} |-> FREE]],
         [id |-> IsoTable[2], date |-> IsoTable[2],
          status |-> [f \in FRIENDS \cup {"Bob"} |->
                         IF f = "Grant" THEN "MAYBE" ELSE BUSY]] >> }

\* A collection of well-formed slots that is not the seed's: a single slot,
\* of the Saturday after the seed's last.
ForeignArrays ==
    { << [id |-> IsoTable[NumWeekends + 1], date |-> IsoTable[NumWeekends + 1],
          status |-> AllBusy] >> }

\* What can come back for a GET /api/weekends: once the backend has served
\* it, the collection it read; otherwise a failure or a body the backend's
\* collection has no part in.
Arrived(f) ==
    IF f.pc = "served" THEN {Response(200, ArrayBody(f.data))}
    ELSE IF f.pc = "fetch"
    THEN {Rejected, Response(404, NoBody), Response(500, NoBody),
          Response(200, GarbledBody), Response(200, NonArrayBody)}
         \cup {Response(200, ArrayBody(m)) : m \in MalformedArrays \cup ForeignArrays}
    ELSE {}

\* response.ok
Ok(r) == r.status >= 200 /\ r.status <= 299

----------------------------------------------------------------------------
(* Bookkeeping of the last step, for stating the properties.               *)

\* A name for a new in-flight request: the least number not in use.
FreshId(used) == CHOOSE n \in 1..(Cardinality(used) + 1) :
                    /\ n \notin used
                    /\ \A m \in 1..(n - 1) : m \in used

\* The request `rec` numbered apart from the pending requests of `pending`
\* that are otherwise equal to it.
Numbered(rec, pending) ==
    [rec EXCEPT !.n = FreshId({g.n : g \in {h \in pending :
                                   [h EXCEPT !.n = 0] = [rec EXCEPT !.n = 0]}})]

Event(op, isInitial) == [op |-> op, isInitial |-> isInitial, mode |-> Mode]

NoHist == [id |-> "", name |-> "", orig |-> "", count |-> 0]

----------------------------------------------------------------------------
(* toggleStatus                                                  341-375   *)

NoItem == [present |-> FALSE, text |-> <<>>]
Item(text) == [present |-> TRUE, text |-> text]

\* w.status[name], undefined when the key is missing
StatusOf(w, name) == IF name \in DOMAIN w.status THEN w.status[name] ELSE "undefined"

\* w.status[name] === FREE ? BUSY : FREE
NewStatus(s) == IF s = FREE THEN BUSY ELSE FREE

\* UpdatedWeekend without the spread of w.status: {...w, status: {[name]: newStatus}}
UpdatedWeekend_dropsOthers(w, name) ==
    [w EXCEPT !.status = [k \in {name} |-> NewStatus(StatusOf(w, name))]]

\* {...w, status: {...w.status, [name]: newStatus}}
UpdatedWeekend(w, name) ==
    [w EXCEPT !.status =
        [k \in (DOMAIN w.status) \cup {name} |->
            IF k = name THEN NewStatus(StatusOf(w, name)) ELSE w.status[k]]]

\* UpdatedWeekends computed from the schedule of the first render, not from
\* the current one
UpdatedWeekends_fromSeed(ws, weekendId, name) ==
    [i \in DOMAIN INITIAL_WEEKENDS |->
        IF INITIAL_WEEKENDS[i].id = weekendId
        THEN UpdatedWeekend(INITIAL_WEEKENDS[i], name) ELSE INITIAL_WEEKENDS[i]]

\* weekends.map(w => w.id === weekendId ? updatedWeekend : w)
UpdatedWeekends(ws, weekendId, name) ==
    [i \in DOMAIN ws |->
        IF ws[i].id = weekendId THEN UpdatedWeekend(ws[i], name) ELSE ws[i]]

\* NewFullList that saves the list as it was before the click
NewFullList_stale(ws, weekendId, updatedWeekend) == ws

\* weekends.map(item => item.id === weekendId ? updatedWeekend : item)
NewFullList(ws, weekendId, updatedWeekend) ==
    [i \in DOMAIN ws |-> IF ws[i].id = weekendId THEN updatedWeekend ELSE ws[i]]

\* Matching that falls back to the first slot when no id matches
Matching_orFirst(ws, weekendId) ==
    IF \E i \in DOMAIN ws : ws[i].id = weekendId
    THEN {i \in DOMAIN ws : ws[i].id = weekendId}
    ELSE {i \in DOMAIN ws : i = 1}

\* The slot the map callback matches (ids are distinct in every schedule
\* the model holds, so there is at most one).
Matching(ws, weekendId) == {i \in DOMAIN ws : ws[i].id = weekendId}

\* Persist without the offline branch: every toggle is posted
Persist_alwaysRemote(weekendId, name) ==
    IF Matching(weekends, weekendId) = {}
    THEN UNCHANGED <<localStorage, writes>>
    ELSE LET w  == weekends[CHOOSE i \in Matching(weekends, weekendId) : TRUE]
             uw == UpdatedWeekend(w, name)
         IN  /\ writes' = writes \cup
                    {Numbered([n |-> 0, body |-> StringifySlot(uw),
                               id |-> weekendId, name |-> name], writes)}
             /\ UNCHANGED localStorage

\* The persistence branch of the map callback: localStorage.setItem in
\* offline mode, POST /api/weekends otherwise.
Persist(weekendId, name) ==
    IF Matching(weekends, weekendId) = {}
    THEN UNCHANGED <<localStorage, writes>>
    ELSE LET w  == weekends[CHOOSE i \in Matching(weekends, weekendId) : TRUE]
             uw == UpdatedWeekend(w, name)
         IN  IF isOfflineMode
             THEN /\ localStorage' = Item(Stringify(NewFullList(weekends, weekendId, uw)))
                  /\ UNCHANGED writes
             ELSE /\ writes' = writes \cup
                        {Numbered([n |-> 0, body |-> StringifySlot(uw),
                                   id |-> weekendId, name |-> name], writes)}
                  /\ UNCHANGED localStorage

\* The badges the model clicks: Ian's and Grant's, of any rendered slot.
ClickNames == {"Grant", "Ian"}

\* The ids a click can carry: the rendered slots' (469-499).
ClickableIds == {weekends[i].id : i \in DOMAIN weekends}

\* An id no slot of any schedule has: toggleStatus takes any string.
UnknownIds == {"no-such-slot"}

toggleStatus(weekendId, name) ==
    /\ ~isLoading
    /\ nEvents < MaxEvents
    /\ Persist(weekendId, name)
    /\ weekends' = UpdatedWeekends(weekends, weekendId, name)
    /\ nEvents' = nEvents + 1
    /\ ev' = Event(IF weekendId \in ClickableIds THEN "toggle" ELSE "toggleMiss", FALSE)
    /\ UNCHANGED <<insight, isSyncing>>
    /\ hist' = IF weekendId \notin ClickableIds THEN hist
               ELSE IF hist.id = weekendId /\ hist.name = name
               THEN [hist EXCEPT !.count = @ + 1]
               ELSE [id |-> weekendId, name |-> name, count |-> 1,
                     orig |-> IF Matching(weekends, weekendId) = {} THEN ""
                              ELSE StatusOf(weekends[CHOOSE i \in Matching(weekends, weekendId) : TRUE], name)]
    /\ UNCHANGED <<isLoading, isOfflineMode, lastSynced, syncError, isConnecting,
                   db, fetches>>

\* .then(res => { if (res.ok) setLastSynced(new Date()); else throw ... })
WriteOk(w) ==
    /\ w \in writes
    /\ writes' = writes \ {w}
    /\ db' = ServerWriteOne(db, w.body)
    /\ lastSynced' = TRUE
    /\ ev' = Event("writeOk", FALSE)
    /\ UNCHANGED <<insight, isSyncing>>
    /\ UNCHANGED <<weekends, isLoading, isOfflineMode, syncError, isConnecting,
                   localStorage, fetches, nEvents, hist>>

\* What the handlers at 363-367 do when the POST is rejected or not ok.
OnWriteFailure ==
    /\ syncError' = "Failed to push update!"
    /\ UNCHANGED <<isOfflineMode, isConnecting, localStorage>>

\* the POST fails: rejected (status 0), or answered with a non-ok status
WriteFail(w, status) ==
    /\ w \in writes
    /\ writes' = writes \ {w}
    /\ OnWriteFailure
    /\ ev' = Event("writeFail", FALSE)
    /\ UNCHANGED <<insight, isSyncing>>
    /\ UNCHANGED <<weekends, isLoading, lastSynced, db, fetches, nEvents,
                   hist>>

----------------------------------------------------------------------------
(* fetchData                                                     275-329   *)

\* setSyncError(null); const response = await fetch('/api/weekends?t=...')
StartFetch(isInitial) ==
    /\ syncError' = NoError
    /\ fetches' = fetches \cup
          {Numbered([n |-> 0, isInitial |-> isInitial, pc |-> "fetch",
                     data |-> <<>>], fetches)}

\* finally { if (isInitial) setIsLoading(false) }
Finally(f) == isLoading' = IF f.isInitial THEN FALSE ELSE isLoading

\* catch (err) { setSyncError("Cloud connection unstable...") }
Catch == syncError' = "Cloud connection unstable..."

\* Merge that never lets go of the schedule in memory
Merge_keepsPrev(prev, hydrated) == prev

\* setWeekends(prev => JSON.stringify(prev) !== JSON.stringify(hydrated) ? hydrated : prev)
Merge(prev, hydrated) ==
    IF Stringify(prev) # Stringify(hydrated) THEN hydrated ELSE prev

\* data && Array.isArray(data) && data.length > 0
NonEmptyArray(body) == body.isArray /\ Len(body.data) > 0

\* PollTick with the interval callback guarded by the offline flag
PollTick_unlessOffline ==
    /\ ~isOfflineMode
    /\ nEvents < MaxEvents
    /\ nEvents' = nEvents + 1
    /\ StartFetch(FALSE)
    /\ ev' = Event("tick", FALSE)
    /\ UNCHANGED <<insight, isSyncing>>
    /\ UNCHANGED <<weekends, isLoading, isOfflineMode, lastSynced, isConnecting,
                   localStorage, db, writes, hist>>

\* The interval of the polling effect fires: fetchData()            336-339
PollTick ==
    /\ nEvents < MaxEvents
    /\ nEvents' = nEvents + 1
    /\ StartFetch(FALSE)
    /\ ev' = Event("tick", FALSE)
    /\ UNCHANGED <<insight, isSyncing>>
    /\ UNCHANGED <<weekends, isLoading, isOfflineMode, lastSynced, isConnecting,
                   localStorage, db, writes, hist>>

\* The backend serves a GET: the collection is read here, and the response
\* reaches the client in a later step.
ServeRead(f) ==
    /\ f \in fetches /\ f.pc = "fetch"
    /\ fetches' = (fetches \ {f}) \cup
          {Numbered([f EXCEPT !.pc = "served", !.data = ServerReadAll(db)],
                    fetches \ {f})}
    /\ ev' = Event("serve", f.isInitial)
    /\ UNCHANGED <<insight, isSyncing>>
    /\ UNCHANGED <<weekends, isLoading, isOfflineMode, lastSynced, syncError,
                   isConnecting, localStorage, db, writes, nEvents, hist>>

\* OnNotFound without the read of localStorage
OnNotFound_ignoresLocal(f) ==
    /\ isOfflineMode' = IF f.isInitial THEN TRUE ELSE isOfflineMode
    /\ weekends' = weekends
    /\ isConnecting' = FALSE

\* What the 404 branch does to the session state                    281-293
OnNotFound(f) ==
    /\ isOfflineMode' = IF f.isInitial THEN TRUE ELSE isOfflineMode
    /\ weekends' = IF f.isInitial /\ localStorage.present
                   THEN HydrateLocal(localStorage.text) ELSE weekends
    /\ isConnecting' = FALSE

\* response.status === 404
ReadNotFound(f, r) ==
    /\ f \in fetches /\ r \in Arrived(f)
    /\ r.status = 404
    /\ OnNotFound(f)
    /\ Finally(f)
    /\ fetches' = fetches \ {f}
    /\ ev' = Event("notFound", f.isInitial)
    /\ UNCHANGED <<insight, isSyncing>>
    /\ hist' = IF f.isInitial /\ localStorage.present THEN NoHist ELSE hist
    /\ UNCHANGED <<lastSynced, syncError, localStorage, db, writes, nEvents>>

\* OnReadFailure with a catch block that also clears the offline flag
OnReadFailure_clearsOffline ==
    /\ Catch
    /\ isOfflineMode' = FALSE
    /\ UNCHANGED <<weekends, isConnecting, lastSynced>>

\* What the catch block does to the session state                   322-326
OnReadFailure ==
    /\ Catch
    /\ UNCHANGED <<weekends, isOfflineMode, isConnecting, lastSynced>>

\* ReadFailed with a catch block that falls back to local mode: it sets the
\* offline flag, ends connecting and loads the stored snapshot
ReadFailed_fallsBack(f, r) ==
    /\ f \in fetches /\ r \in Arrived(f)
    /\ r.status # 404
    /\ r.status = 0 \/ ~Ok(r) \/ ~r.body.parses
    /\ Catch
    /\ isOfflineMode' = TRUE
    /\ isConnecting' = FALSE
    /\ weekends' = IF localStorage.present
                   THEN HydrateLocal(localStorage.text) ELSE weekends
    /\ Finally(f)
    /\ fetches' = fetches \ {f}
    /\ ev' = Event("readFailed", f.isInitial)
    /\ UNCHANGED <<insight, isSyncing>>
    /\ UNCHANGED <<lastSynced, localStorage, db, writes, nEvents, hist>>

\* fetch() rejected, !response.ok, or response.json() threw
ReadFailed(f, r) ==
    /\ f \in fetches /\ r \in Arrived(f)
    /\ r.status # 404
    /\ r.status = 0 \/ ~Ok(r) \/ ~r.body.parses
    /\ OnReadFailure
    /\ Finally(f)
    /\ fetches' = fetches \ {f}
    /\ ev' = Event("readFailed", f.isInitial)
    /\ UNCHANGED <<insight, isSyncing>>
    /\ UNCHANGED <<localStorage, db, writes, nEvents, hist>>

\* What the non-empty branch does to the session state              299-311
OnSnapshot(data) ==
    /\ weekends' = Merge(weekends, HydrateRemote(data))
    /\ lastSynced' = TRUE
    /\ isOfflineMode' = FALSE
    /\ isConnecting' = FALSE

\* ReadAdopt that abandons the POSTs still in flight
ReadAdopt_dropsWrites(f, r) ==
    /\ f \in fetches /\ r \in Arrived(f)
    /\ Ok(r) /\ r.body.parses /\ NonEmptyArray(r.body)
    /\ OnSnapshot(r.body.data)
    /\ Finally(f)
    /\ fetches' = fetches \ {f}
    /\ writes' = {}
    /\ ev' = Event("adopt", f.isInitial)
    /\ UNCHANGED <<insight, isSyncing>>
    /\ hist' = NoHist
    /\ UNCHANGED <<syncError, localStorage, db, nEvents>>

\* the body is a non-empty array
ReadAdopt(f, r) ==
    /\ f \in fetches /\ r \in Arrived(f)
    /\ Ok(r) /\ r.body.parses /\ NonEmptyArray(r.body)
    /\ OnSnapshot(r.body.data)
    /\ Finally(f)
    /\ fetches' = fetches \ {f}
    /\ ev' = Event("adopt", f.isInitial)
    /\ UNCHANGED <<insight, isSyncing>>
    /\ hist' = NoHist
    /\ UNCHANGED <<syncError, localStorage, db, writes, nEvents>>

\* else if (isInitial): await fetch('/api/initialize', {method: 'POST', ...})
ReadEmptyInitial(f, r) ==
    /\ f \in fetches /\ r \in Arrived(f)
    /\ Ok(r) /\ r.body.parses /\ ~NonEmptyArray(r.body)
    /\ f.isInitial
    /\ fetches' = (fetches \ {f}) \cup {[f EXCEPT !.pc = "initialize", !.data = <<>>]}
    /\ ev' = Event("initialize", TRUE)
    /\ UNCHANGED <<insight, isSyncing>>
    /\ UNCHANGED <<weekends, isLoading, isOfflineMode, lastSynced, syncError,
                   isConnecting, localStorage, db, writes, nEvents, hist>>

\* neither branch: a poll whose body is empty or no array
ReadEmptyPoll(f, r) ==
    /\ f \in fetches /\ r \in Arrived(f)
    /\ Ok(r) /\ r.body.parses /\ ~NonEmptyArray(r.body)
    /\ ~f.isInitial
    /\ fetches' = fetches \ {f}
    /\ ev' = Event("emptyPoll", FALSE)
    /\ UNCHANGED <<insight, isSyncing>>
    /\ UNCHANGED <<weekends, isLoading, isOfflineMode, lastSynced, syncError,
                   isConnecting, localStorage, db, writes, nEvents, hist>>

\* InitializeResolved without the fetchData() call that follows the POST
InitializeResolved_noReread(f, accepted) ==
    /\ f \in fetches /\ f.pc = "initialize"
    /\ db' = IF accepted THEN ServerInitialize(db, Stringify(INITIAL_WEEKENDS)) ELSE db
    /\ fetches' = fetches \ {f}
    /\ Finally(f)
    /\ ev' = Event("initialized", TRUE)
    /\ UNCHANGED <<insight, isSyncing>>
    /\ UNCHANGED <<weekends, isOfflineMode, lastSynced, syncError, isConnecting,
                   localStorage, writes, nEvents, hist>>

\* The POST /api/initialize resolves (its status is not looked at): the
\* backend stores the seed when it accepted the request; fetchData() 320
InitializeResolved(f, accepted) ==
    /\ f \in fetches /\ f.pc = "initialize"
    /\ db' = IF accepted THEN ServerInitialize(db, Stringify(INITIAL_WEEKENDS)) ELSE db
    /\ syncError' = NoError
    /\ fetches' = (fetches \ {f}) \cup
          {Numbered([n |-> 0, isInitial |-> FALSE, pc |-> "fetch", data |-> <<>>],
                    fetches)}
    /\ Finally(f)
    /\ ev' = Event("initialized", TRUE)
    /\ UNCHANGED <<insight, isSyncing>>
    /\ UNCHANGED <<weekends, isOfflineMode, lastSynced, isConnecting,
                   localStorage, writes, nEvents, hist>>

\* The POST /api/initialize is rejected: the catch block runs
InitializeRejected(f) ==
    /\ f \in fetches /\ f.pc = "initialize"
    /\ OnReadFailure
    /\ Finally(f)
    /\ fetches' = fetches \ {f}
    /\ ev' = Event("initializeRejected", TRUE)
    /\ UNCHANGED <<insight, isSyncing>>
    /\ UNCHANGED <<localStorage, db, writes, nEvents, hist>>

----------------------------------------------------------------------------
(* generateInsight                                               383-393   *)
(* getSquadInsight                         services/geminiService.ts 34-99 *)

NoInsight == "null"

\* What getSquadInsight resolves with: the notice that the service is
\* unavailable (no SDK or no key), the parsed reply, or the fallback of its
\* catch block.  It never rejects.
InsightOutcomes == {"unavailable", "generated", "fallback"}

\* generateInsight that puts the loading screen up while the request is
\* pending
generateInsight_showsLoading ==
    /\ ~isLoading /\ ~isSyncing
    /\ nEvents < MaxEvents
    /\ isSyncing' = TRUE
    /\ isLoading' = TRUE
    /\ nEvents' = nEvents + 1
    /\ ev' = Event("insight", FALSE)
    /\ UNCHANGED <<weekends, isOfflineMode, lastSynced, syncError,
                   isConnecting, insight, localStorage, db, fetches, writes, hist>>

\* The button is clicked (it is disabled while isSyncing): setIsSyncing(true)
\* and the call of getSquadInsight(weekends)
generateInsight ==
    /\ ~isLoading /\ ~isSyncing
    /\ nEvents < MaxEvents
    /\ isSyncing' = TRUE
    /\ nEvents' = nEvents + 1
    /\ ev' = Event("insight", FALSE)
    /\ UNCHANGED <<weekends, isLoading, isOfflineMode, lastSynced, syncError,
                   isConnecting, insight, localStorage, db, fetches, writes, hist>>

\* await getSquadInsight(...) resumes: setInsight(data); setIsSyncing(false)
InsightResolved(outcome) ==
    /\ isSyncing
    /\ insight' = outcome
    /\ isSyncing' = FALSE
    /\ ev' = Event("insightDone", FALSE)
    /\ UNCHANGED <<weekends, isLoading, isOfflineMode, lastSynced, syncError,
                   isConnecting, localStorage, db, fetches, writes, nEvents, hist>>

----------------------------------------------------------------------------
(* Other clients                                                           *)

\* The slots another client can post: a seed slot with everyone FREE.
OtherSlots ==
    {[id |-> INITIAL_WEEKENDS[i].id, date |-> DateToJSON(INITIAL_WEEKENDS[i].date),
      status |-> st] :
        i \in 1..NumWeekends, st \in {AllFree}}

\* A write of another client reaches the backend.
OtherClientWrite(slot) ==
    /\ nEvents < MaxEvents
    /\ Len(db) > 0
    /\ db' = ServerWriteOne(db, slot)
    /\ nEvents' = nEvents + 1
    /\ ev' = Event("otherWrite", FALSE)
    /\ UNCHANGED <<insight, isSyncing>>
    /\ UNCHANGED <<weekends, isLoading, isOfflineMode, lastSynced, syncError,
                   isConnecting, localStorage, fetches, writes, hist>>

----------------------------------------------------------------------------
(* The session                                                             *)

\* What an earlier offline session can have left in localStorage.
PriorSnapshot ==
    Stringify(UpdatedWeekends(INITIAL_WEEKENDS, INITIAL_WEEKENDS[1].id, "Ian"))

\* The component is mounted and the first effect has called fetchData(true).
Init ==
    /\ weekends = INITIAL_WEEKENDS
    /\ isLoading = TRUE
    /\ isOfflineMode = FALSE
    /\ lastSynced = FALSE
    /\ syncError = NoError
    /\ isConnecting = TRUE
    /\ insight = NoInsight
    /\ isSyncing = FALSE
    /\ localStorage \in {NoItem, Item(PriorSnapshot)}
    /\ db \in {<<>>, Stringify(INITIAL_WEEKENDS)}
    /\ fetches = {[n |-> 1, isInitial |-> TRUE, pc |-> "fetch", data |-> <<>>]}
    /\ writes = {}
    /\ nEvents = 0
    /\ ev = [op |-> "mount", isInitial |-> TRUE, mode |-> "CONNECTING"]
    /\ hist = NoHist

Next ==
    \/ PollTick
    \/ \E f \in fetches : ServeRead(f)
    \/ \E f \in fetches : \E r \in Arrived(f) : ReadNotFound(f, r)
    \/ \E f \in fetches : \E r \in Arrived(f) : ReadFailed(f, r)
    \/ \E f \in fetches : \E r \in Arrived(f) : ReadAdopt(f, r)
    \/ \E f \in fetches : \E r \in Arrived(f) : ReadEmptyInitial(f, r)
    \/ \E f \in fetches : \E r \in Arrived(f) : ReadEmptyPoll(f, r)
    \/ \E f \in fetches : \E accepted \in BOOLEAN : InitializeResolved(f, accepted)
    \/ \E f \in fetches : InitializeRejected(f)
    \/ \E id \in ClickableIds \cup UnknownIds : \E name \in ClickNames :
          toggleStatus(id, name)
    \/ \E w \in writes : WriteOk(w)
    \/ \E w \in writes : \E status \in {0, 500} : WriteFail(w, status)
    \/ generateInsight
    \/ \E outcome \in InsightOutcomes : InsightResolved(outcome)
    \/ \E slot \in OtherSlots : OtherClientWrite(slot)

Spec == Init /\ [][Next]_vars

----------------------------------------------------------------------------
(* The session with a timer that never stops and a backend that, once the  *)
(* first read is over, answers every request.                              *)

\* The interval keeps firing for as long as the component is mounted; the
\* model lets a tick start a read while fewer than MaxInFlight are pending.
PollTickRepeating ==
    /\ Cardinality(fetches) < MaxInFlight
    /\ StartFetch(FALSE)
    /\ ev' = Event("tick", FALSE)
    /\ UNCHANGED <<weekends, isLoading, isOfflineMode, lastSynced, isConnecting,
                   insight, isSyncing, localStorage, db, writes, nEvents, hist>>

\* The first read fails: the request is rejected or answered with a status
\* that is neither ok nor 404.
FirstReadFailed(f, r) ==
    /\ f.isInitial /\ f.pc = "fetch"
    /\ r.status \in {0, 500}
    /\ ReadFailed(f, r)

\* The response of a read the backend has served reaches the client.
ServedResponse(f, r) ==
    /\ f.pc = "served"
    /\ \/ ReadAdopt(f, r)
       \/ ReadEmptyInitial(f, r)
       \/ ReadEmptyPoll(f, r)

LiveNext ==
    \/ PollTickRepeating
    \/ \E f \in fetches : ServeRead(f)
    \/ \E f \in fetches : \E r \in Arrived(f) : FirstReadFailed(f, r)
    \/ \E f \in fetches : \E r \in Arrived(f) : ServedResponse(f, r)
    \/ \E f \in fetches : InitializeResolved(f, TRUE)
    \/ \E id \in ClickableIds : \E name \in ClickNames : toggleStatus(id, name)
    \/ \E w \in writes : WriteOk(w)

\* The timer fires again and again, and every request is answered in the end.
LiveSpec ==
    /\ Init /\ [][LiveNext]_vars
    /\ WF_vars(PollTickRepeating)
    /\ WF_vars(\E f \in fetches : ServeRead(f))
    /\ WF_vars(\E f \in fetches : \E r \in Arrived(f) : ServedResponse(f, r))
    /\ WF_vars(\E f \in fetches : InitializeResolved(f, TRUE))
    /\ WF_vars(\E w \in writes : WriteOk(w))

----------------------------------------------------------------------------
(* Properties                                                              *)

\* The slot of the schedule `ws` with id `id` (ids are distinct).
SlotOf(ws, id) == ws[CHOOSE i \in DOMAIN ws : ws[i].id = id]

\* What a fresh LocalStore.load() yields: the item parsed as at 287-288.
Load == HydrateLocal(localStorage.text)

\* C1: whenever the mode is ONLINE and the POST of a toggle fails (rejected
\* or answered with a non-ok status), the mode becomes OFFLINE and the
\* schedule in memory, toggled value included, stays as it is.
C1_WriteFailureGoesOffline ==
    [][(ev'.op = "writeFail" /\ Mode = "ONLINE")
          => (Mode' = "OFFLINE" /\ weekends' = weekends)]_vars

\* C2: when the POST of a toggle issued in ONLINE mode fails, the full
\* current schedule is saved to localStorage, so that loading it afterwards
\* yields the schedule in memory, toggled value included.
C2_WriteFailureSavesLocally ==
    [][(ev'.op = "writeFail" /\ Mode = "ONLINE")
          => (localStorage'.present /\ HydrateLocal(localStorage'.text) = weekends')]_vars

C5_OfflineToggleDurable ==
    (ev.op = "toggle" /\ ev.mode = "OFFLINE")
        => (localStorage.present /\ Load = weekends)

\* Two offline toggles in succession (Grant is BUSY in the seed and in the
\* stored snapshot), both in memory.
C5_Witness ==
    /\ ev.op = "toggle" /\ ev.mode = "OFFLINE"
    /\ \A i \in DOMAIN weekends : StatusOf(weekends[i], "Grant") = FREE

\* C6: a toggle flips the clicked participant's status in the clicked slot
\* (FREE to BUSY, BUSY to FREE) and nothing else: the other participants'
\* statuses, the other slots, the ids, the dates and the order stay; and the
\* outcome of the write leaves the schedule in memory alone.
C6_ToggleFlipsExactlyOne ==
    [][/\ ev'.op = "toggle" =>
            /\ DOMAIN weekends' = DOMAIN weekends
            /\ \A i \in DOMAIN weekends :
                  /\ weekends'[i].id = weekends[i].id
                  /\ weekends'[i].date = weekends[i].date
                  /\ weekends[i].id # hist'.id => weekends'[i] = weekends[i]
                  /\ weekends[i].id = hist'.id =>
                        /\ \A k \in (DOMAIN weekends[i].status
                                      \cup DOMAIN weekends'[i].status) \ {hist'.name} :
                              /\ k \in DOMAIN weekends[i].status
                              /\ k \in DOMAIN weekends'[i].status
                              /\ weekends'[i].status[k] = weekends[i].status[k]
                        /\ StatusOf(weekends[i], hist'.name) = FREE
                              => StatusOf(weekends'[i], hist'.name) = BUSY
                        /\ StatusOf(weekends[i], hist'.name) = BUSY
                              => StatusOf(weekends'[i], hist'.name) = FREE
       /\ ev'.op \in {"writeOk", "writeFail"} => weekends' = weekends]_vars

\* A toggle has just flipped a FREE status to BUSY, in a schedule where
\* another status of the same slot is FREE.
C6_Witness ==
    /\ ev.op = "toggle" /\ hist.count = 1 /\ hist.orig = FREE
    /\ \E f \in FRIENDS \ {hist.name} :
          StatusOf(SlotOf(weekends, hist.id), f) = FREE

\* C7: after the same toggle twice in a row, no read response merged in
\* between, the status is what it was before the first of the two,
\* whatever value that was.
C7_TwiceRestores ==
    (ev.op = "toggle" /\ hist.count = 2)
        => StatusOf(SlotOf(weekends, hist.id), hist.name) = hist.orig

\* C8: every slot in memory has a status for exactly the participants.
C8_StatusComplete ==
    \A i \in DOMAIN weekends : DOMAIN weekends[i].status = FRIENDS

\* isFullyFree: every configured participant is FREE in the slot
FullyFree(w) == \A f \in FRIENDS : StatusOf(w, f) = FREE

\* C9: the shortlist is the subsequence of the schedule in memory whose
\* slots have every configured participant FREE, in the schedule's order.
C9_ShortlistCorrect == shortlist = SelectSeq(weekends, FullyFree)

\* C10: when the first read is answered 404 while the session is still
\* CONNECTING, the mode becomes OFFLINE, the schedule in memory is the one
\* stored in localStorage if there is one and the seed otherwise, and no
\* POST /api/initialize is in flight or has changed the backend.
C10_NotFoundGoesOffline ==
    (ev.op = "notFound" /\ ev.isInitial /\ ev.mode = "CONNECTING")
        => /\ Mode = "OFFLINE"
           /\ weekends = IF localStorage.present THEN Load ELSE INITIAL_WEEKENDS
           /\ \A f \in fetches : f.pc # "initialize"
           /\ ~isLoading

\* The first read was answered 404 and a stored snapshot, not the seed, was
\* adopted.
C10_Witness ==
    /\ ev.op = "notFound" /\ ev.isInitial /\ ev.mode = "CONNECTING"
    /\ localStorage.present /\ weekends = Load /\ weekends # INITIAL_WEEKENDS

\* The seed as the POST /api/initialize carries it.
SeedBody == Stringify(INITIAL_WEEKENDS)

\* C11: when the response of the first read arrives with an empty
\* collection, a POST /api/initialize is issued and nothing else changes;
\* the body it carries is the seed: NumWeekends slots, each with the four
\* participants BUSY; when the POST resolves, the backend holds what it held
\* or the seed, and a new read is issued; and when the response of a later
\* read carrying the seed arrives, the schedule in memory becomes that
\* snapshot and the mode ONLINE.
C11_EmptyStoreBootstrap ==
    [][/\ \A f \in fetches :
             (f.isInitial /\ f.pc = "served" /\ f.data = <<>> /\ f \notin fetches')
                => /\ [f EXCEPT !.pc = "initialize"] \in fetches'
                   /\ db' = db /\ weekends' = weekends /\ Mode' = Mode
       /\ \A f \in fetches :
             (f.pc = "initialize" /\ f \notin fetches' /\ ev'.op = "initialized")
                => /\ db' \in {db, SeedBody}
                   /\ Len(SeedBody) = NumWeekends
                   /\ \A i \in DOMAIN SeedBody :
                         SeedBody[i].status = [n \in FRIENDS |-> BUSY]
                   /\ \E g \in fetches' \ fetches : g.pc = "fetch" /\ ~g.isInitial
       /\ \A g \in fetches :
             (~g.isInitial /\ g.pc = "served" /\ g.data = SeedBody /\ g \notin fetches')
                => /\ weekends' = HydrateRemote(g.data)
                   /\ Mode' = "ONLINE"]_vars

\* The read issued after the POST /api/initialize (no timer tick has
\* happened) has been answered with the seed and adopted.
C11_Witness ==
    /\ ev.op = "adopt" /\ ~ev.isInitial /\ ev.mode = "CONNECTING"
    /\ nEvents = 0 /\ db = SeedBody
    /\ weekends = HydrateRemote(SeedBody) /\ Mode = "ONLINE"

\* C12: when the first read fails (the request is rejected, the status is
\* an error other than 404, or the body cannot be parsed) while the session
\* is CONNECTING, the mode stays CONNECTING, the schedule in memory is the
\* seed whatever localStorage holds, the error is recorded and the loading
\* screen ends.
C12_FirstReadFailureKeepsConnecting ==
    (ev.op = "readFailed" /\ ev.isInitial /\ ev.mode = "CONNECTING")
        => /\ Mode = "CONNECTING"
           /\ weekends = INITIAL_WEEKENDS
           /\ syncError = "Cloud connection unstable..."
           /\ ~isLoading

\* The first read has failed while localStorage holds a snapshot that
\* differs from the seed.
C12_Witness ==
    /\ ev.op = "readFailed" /\ ev.isInitial /\ ev.mode = "CONNECTING"
    /\ localStorage.present /\ Load # INITIAL_WEEKENDS
    /\ Mode = "CONNECTING" /\ weekends = INITIAL_WEEKENDS

\* C13: no read that fails, with a 404 or otherwise, on the first read or
\* on a poll, takes the mode from CONNECTING to ONLINE.
C13_FailedReadNeverOnline ==
    [][(ev'.op \in {"notFound", "readFailed"} /\ Mode = "CONNECTING")
          => Mode' # "ONLINE"]_vars

\* C14: a poll that fails, with a 404 or otherwise, records an error and
\* leaves the mode and the schedule in memory as they were.
C14_FailedPollFrame ==
    [][(ev'.op \in {"notFound", "readFailed"} /\ ~ev'.isInitial)
          => /\ syncError' # NoError
             /\ Mode' = Mode
             /\ weekends' = weekends]_vars

\* The steps that handle the response of a request in flight.
ResponseOps ==
    {"serve", "notFound", "readFailed", "adopt", "initialize", "emptyPoll",
     "initialized", "initializeRejected"}

\* C15: the response of a read that carries a non-empty collection replaces
\* the schedule in memory with that snapshot, whatever the schedule was and
\* in whatever order the reads were issued; merging the same snapshot again
\* changes nothing; and a request in flight leaves only when its own
\* response is handled, one request per step: none is cancelled by a tick,
\* a toggle, a write outcome or the response of another request.
C15_MergeReplaces ==
    [][/\ ev'.op = "adopt" =>
            \E f \in fetches :
               /\ fetches' = fetches \ {f}
               /\ \E r \in Arrived(f) :
                     /\ Ok(r) /\ NonEmptyArray(r.body)
                     /\ weekends' = HydrateRemote(r.body.data)
                     /\ Merge(weekends', HydrateRemote(r.body.data)) = weekends'
       /\ \A g \in fetches : g \notin fetches' => ev'.op \in ResponseOps
       /\ Cardinality(fetches \ fetches') <= 1]_vars

\* A snapshot has just been merged while the response of another read,
\* carrying a different snapshot, is still on its way.
C15_Witness ==
    /\ ev.op = "adopt"
    /\ \E g \in fetches :
          /\ g.pc = "served" /\ Len(g.data) > 0
          /\ g.data # Stringify(weekends)

\* The set of slot ids of a schedule.
IdsOf(ws) == {ws[i].id : i \in DOMAIN ws}

\* C16: from the step after a snapshot was adopted, the length of the
\* schedule in memory and the set of its slot ids stay as they are.
C16_IdsStable ==
    [][ev.op = "adopt"
          => (Len(weekends') = Len(weekends) /\ IdsOf(weekends') = IdsOf(weekends))]_vars

\* C17 as claimed: a toggle of a rendered slot posts the updated slot only
\* when the mode is ONLINE, and when the mode is OFFLINE it saves the full
\* schedule and posts nothing.
C17_RemoteOnlyWhenOnline ==
    [][ev'.op = "toggle" =>
          /\ writes' # writes => Mode = "ONLINE"
          /\ Mode = "OFFLINE" =>
                (writes' = writes /\ localStorage' = Item(Stringify(weekends')))]_vars

\* C17 as amended: a toggle of a rendered slot issues exactly one
\* persistence request, chosen by the mode at that instant: when OFFLINE the
\* full schedule, toggle applied, is saved to localStorage and nothing is
\* posted; when ONLINE or CONNECTING the updated slot alone is posted and
\* localStorage is left alone.  No other step issues a request or saves: a
\* POST in flight leaves only by its own outcome, and when it succeeds the
\* backend takes its body whatever the mode has become.
C17_WriteDestination ==
    [][/\ (ev'.op = "toggle" /\ Mode = "OFFLINE") =>
            /\ writes' = writes
            /\ localStorage' = Item(Stringify(weekends'))
       /\ (ev'.op = "toggle" /\ Mode # "OFFLINE") =>
            /\ localStorage' = localStorage
            /\ writes \subseteq writes'
            /\ \E w \in writes' \ writes :
                  /\ writes' = writes \cup {w}
                  /\ w.body = StringifySlot(SlotOf(weekends', hist'.id))
       /\ ev'.op # "toggle" =>
            /\ localStorage' = localStorage
            /\ writes' \subseteq writes
            /\ \A w \in writes \ writes' :
                  \/ ev'.op = "writeOk" /\ db' = ServerWriteOne(db, w.body)
                  \/ ev'.op = "writeFail" /\ db' = db]_vars

\* A toggle made while the session is CONNECTING (the first read has failed)
\* has just posted the updated slot.
C17_Witness ==
    /\ ev.op = "toggle" /\ ev.mode = "CONNECTING"
    /\ \E w \in writes : w.id = hist.id /\ w.name = hist.name
    /\ ~localStorage.present

\* C18: a POST /api/initialize is issued only by the first read, and only
\* when its response carried a well-formed empty collection.
C18_InitializeOnlyOnEmpty ==
    [][ev'.op = "initialize" =>
          \E f \in fetches :
             /\ f.isInitial /\ f.pc = "served" /\ f.data = <<>>
             /\ f \notin fetches']_vars

\* C19: a read response whose body cannot be parsed, or is no array, or is
\* an array of ill-formed slots, is handled as a failed read: the schedule in
\* memory and the mode stay as they are and the error is recorded.
C19_MalformedBodyDiscarded ==
    [][(\E f \in fetches :
           /\ f.pc = "fetch" /\ f \notin fetches'
           /\ \/ ev'.op \in {"initialize", "emptyPoll"}
              \/ /\ ev'.op = "adopt"
                 /\ \E m \in MalformedArrays : weekends' = HydrateRemote(m))
          => /\ weekends' = weekends
             /\ Mode' = Mode
             /\ syncError' = "Cloud connection unstable..."]_vars

\* A schedule of `count` slots, one every DaysPerStep days from the start
\* date in ascending order, each id the ISO text of its date and no id
\* twice, every participant BUSY.
SeedShape(ws, count) ==
    /\ Len(ws) = count
    /\ \A i \in DOMAIN ws :
          /\ ws[i].date = ws[1].date + (i - 1) * DaysPerStep
          /\ NewDate(ws[i].id) = ws[i].date
          /\ DOMAIN ws[i].status = FRIENDS
          /\ \A n \in FRIENDS : ws[i].status[n] = BUSY
    /\ \A i, j \in DOMAIN ws : i < j => ws[i].date < ws[j].date
    /\ \A i, j \in DOMAIN ws : i # j => ws[i].id # ws[j].id

\* C20: the seed has NumWeekends slots at 7-day intervals from the start
\* date in ascending order, with pairwise distinct ids and every participant
\* BUSY; the schedule of a freshly mounted session is that seed, and the
\* seed a POST /api/initialize has stored has the same ids, in the same
\* order and number, as the seed in memory.
C20_SeedShape ==
    /\ SeedShape(INITIAL_WEEKENDS, NumWeekends)
    /\ Cardinality(IdsOf(INITIAL_WEEKENDS)) = NumWeekends
    /\ ev.op = "mount" => SeedShape(weekends, NumWeekends)
    /\ (ev.op = "initialized" /\ nEvents = 0 /\ Len(db) > 0)
          => /\ IdsOf(db) = IdsOf(INITIAL_WEEKENDS)
             /\ SeedShape(HydrateRemote(db), NumWeekends)
             /\ weekends = INITIAL_WEEKENDS => Stringify(weekends) = db

\* A POST /api/initialize has stored the seed while the schedule in memory
\* is still the seed of the mount.
C20_Witness ==
    /\ ev.op = "initialized" /\ nEvents = 0
    /\ weekends = INITIAL_WEEKENDS /\ db = SeedBody /\ Len(db) = NumWeekends

\* C21: requesting an insight, and its resolution with any outcome, leave
\* the schedule in memory, the mode, the loading flag, the requests in
\* flight, localStorage and the backend as they are; and while the request
\* is pending, the timer can tick, every read in flight can be served, and
\* every badge can be toggled, as far as the session has events left.
C21_InsightFrame ==
    /\ [](isSyncing =>
            /\ nEvents < MaxEvents => ENABLED PollTick
            /\ \A f \in fetches : f.pc = "fetch" => ENABLED ServeRead(f)
            /\ (nEvents < MaxEvents /\ ~isLoading) =>
                  \A id \in ClickableIds : \A name \in ClickNames :
                     ENABLED toggleStatus(id, name))
    /\ [][ev'.op \in {"insight", "insightDone"} =>
             /\ weekends' = weekends /\ Mode' = Mode /\ isLoading' = isLoading
             /\ writes' = writes /\ fetches' = fetches
             /\ localStorage' = localStorage /\ db' = db]_vars

\* A badge has just been toggled, and its write posted, while an insight
\* request is pending.
C21_Witness ==
    /\ isSyncing /\ ev.op = "toggle"
    /\ \E w \in writes : w.id = hist.id /\ w.name = hist.name

C23_StalePollOverwrites ==
    [][/\ ev'.op = "adopt" =>
            /\ writes' = writes
            /\ \A f \in fetches \ fetches' :
                  f.pc = "served" => weekends' = HydrateRemote(f.data)
       /\ ev'.op = "writeOk" =>
            \A w \in writes \ writes' :
               \E i \in DOMAIN db' : db'[i] = w.body
       /\ ev'.op = "serve" =>
            \A f \in fetches' \ fetches :
               f.pc = "served" /\ f.data = db]_vars

\* A read served before the POST of a toggle was applied has just been
\* merged: the toggled value is gone from memory and the POST is still in
\* flight.
C23_Witness ==
    /\ ev.op = "adopt" /\ Stringify(weekends) = db
    /\ \E w \in writes :
          /\ w.id \in IdsOf(weekends)
          /\ w.name \in DOMAIN SlotOf(weekends, w.id).status
          /\ SlotOf(weekends, w.id).status[w.name] # w.body.status[w.name]

\* C24: after the first read has failed and left the session CONNECTING,
\* with the timer firing and every later request answered, the mode
\* eventually becomes ONLINE with a remote snapshot adopted, whatever the
\* backend holds.
C24_RecoversToOnline ==
    (ev.op = "readFailed" /\ ev.isInitial /\ Mode = "CONNECTING")
        ~> (Mode = "ONLINE" /\ lastSynced)

\* C25: a toggle carrying an id that no slot in memory has changes nothing:
\* the schedule in memory stays as it is, statuses and slots alike, no POST
\* is issued, localStorage is not written, and the mode, the error and the
\* requests in flight stay as they are.
C25_UnknownIdChangesNothing ==
    [][ev'.op = "toggleMiss" =>
          /\ weekends' = weekends
          /\ writes' = writes
          /\ localStorage' = localStorage
          /\ Mode' = Mode
          /\ syncError' = syncError /\ lastSynced' = lastSynced
          /\ fetches' = fetches /\ db' = db]_vars

\* A toggle with an unknown id has just been made while the session is
\* OFFLINE and localStorage is empty: nothing was saved.
C25_Witness ==
    /\ ev.op = "toggleMiss" /\ ev.mode = "OFFLINE" /\ Mode = "OFFLINE"
    /\ ~localStorage.present /\ writes = {}

====
